---- MODULE Spec2Model ----
(***************************************************************************)
(* Model of the digital picture frame: the display engine's run loop       *)
(* (display.py, PictureFrameDisplay) and the control panel's save_config   *)
(* (app.py), which share one configuration file.                           *)
(*                                                                         *)
(* Time is an integer number of seconds.  One loop iteration is split into *)
(* its steps in program order: poll events, handle each event, check the   *)
(* configuration file, evaluate the mode, render and pace.                 *)
(***************************************************************************)
EXTENDS Integers, Sequences, FiniteSets, TLC

(***************************************************************************)
(* Bounds of the model.                                                    *)
(***************************************************************************)
MaxTime == 4          \* last clock value of the general specification
MaxWrites == 1        \* modifications of the configuration file
MaxEvents == 1        \* events returned by one pygame.event.get()
MaxTime60 == 62       \* last clock value of the 60-second scenario
MaxLong == 2          \* seconds explored before and after the long pause
MaxRaceWrites == 2    \* saves of the control panel in the rewrite scenario

(***************************************************************************)
(* Program constants.                                                      *)
(***************************************************************************)
DISABLED_DURATION == 999999999   \* slideshow_duration when power save is off
INIT_BLANK_DURATION == 30        \* blank_duration set by __init__ / disabled
DEFAULT_SLIDESHOW_DURATION == 60 \* .get('power_save_slideshow_duration', 60)
DEFAULT_BLANK_DURATION == 30     \* .get('power_save_blank_duration', 30)

NoKey == -1           \* a numeric key that is absent from the JSON document
None == 0             \* Python None for current_image (image ids are >= 1)
Black == -1           \* the screen filled with (0, 0, 0)

(***************************************************************************)
(* Files on disk: image ids, and the ones PIL cannot decode.               *)
(***************************************************************************)
Undecodable == {3}

(***************************************************************************)
(* Content of the configuration file.  kind "json" is a parseable          *)
(* document; the has_* fields say which keys it holds.  images is the set  *)
(* of image files found under its sources.                                 *)
(***************************************************************************)
Cfg(disp, ival, eps, sd, bd, src, imgs, ovl, clk, dat) ==
    [kind |-> "json", has_display |-> disp, slideshow_interval |-> ival,
     enable_power_save |-> eps, power_save_slideshow_duration |-> sd,
     power_save_blank_duration |-> bd, has_sources |-> src, images |-> imgs,
     has_overlays |-> ovl, clock |-> clk, date |-> dat]

NotJson(k) ==
    [kind |-> k, has_display |-> FALSE, slideshow_interval |-> NoKey,
     enable_power_save |-> FALSE, power_save_slideshow_duration |-> NoKey,
     power_save_blank_duration |-> NoKey, has_sources |-> FALSE, images |-> {},
     has_overlays |-> FALSE, clock |-> FALSE, date |-> FALSE]

Malformed == NotJson("malformed")     \* json.load raises (empty or partial)
Unreadable == NotJson("unreadable")   \* open() raises

CfgPlain == Cfg(TRUE, 2, FALSE, 1, 1, TRUE, {1, 3}, TRUE, TRUE, TRUE)
CfgSave == Cfg(TRUE, 0, TRUE, 1, 1, TRUE, {1}, TRUE, FALSE, TRUE)
CfgNoDisplay == Cfg(FALSE, NoKey, FALSE, NoKey, NoKey, TRUE, {1}, FALSE, FALSE, FALSE)
CfgNoSources == Cfg(TRUE, 1, TRUE, NoKey, NoKey, FALSE, {}, TRUE, FALSE, FALSE)
CfgSave60 == Cfg(TRUE, 5, TRUE, 60, 30, TRUE, {1, 3}, TRUE, TRUE, TRUE)
CfgPlainShort == Cfg(TRUE, 1, FALSE, 1, 1, TRUE, {1}, TRUE, TRUE, FALSE)

\* a document load_config accepts in full
Complete(c) == c.kind = "json" /\ c.has_display /\ c.slideshow_interval # NoKey

Perms(S) ==
    {p \in [1..Cardinality(S) -> S] : \A i, j \in 1..Cardinality(S) : p[i] = p[j] => i = j}

\* random.shuffle of the scanned files of document c
ShuffleChoices(c) == IF c.has_sources THEN Perms(c.images) ELSE {<<>>}

KeyEvents == {"ESC", "SPACE", "B", "R", "OTHER"}
AllEvents == KeyEvents \cup {"QUIT"}

EventLists(E) == UNION {[1..n -> E] : n \in 0..MaxEvents}

VARIABLES
    pc,                 \* position of the display process in run()
    running,            \* local variable running of run()
    events,             \* events of this iteration still to be handled
    now,                \* time.time()
    file_content,       \* the configuration file
    file_mtime,         \* os.path.getmtime of the configuration file
    writer,             \* position of the control panel in save_config
    writes,             \* modifications of the file so far
    config, config_mtime, interval, slideshow_duration, blank_duration,
    blank_mode, mode_start_time, last_change,
    image_list, current_index, current_image,
    cmds,               \* monitor commands issued by the last display step
    monitor,            \* last monitor command issued
    mouse_visible,      \* pygame.mouse visibility
    screen,             \* frame on the screen surface
    drawn               \* overlay elements drawn on the last composited frame

objvars == <<config, config_mtime, interval, slideshow_duration, blank_duration,
             blank_mode, mode_start_time, last_change,
             image_list, current_index, current_image,
             cmds, monitor, mouse_visible, screen, drawn>>
filevars == <<file_content, file_mtime, writer, writes>>
vars == <<pc, running, events, now, filevars, objvars>>

(***************************************************************************)
(* The display object as a record, so that a handler's statements compose  *)
(* in program order.  raised: an exception left the handler.               *)
(***************************************************************************)
Self ==
    [config |-> config, config_mtime |-> config_mtime, interval |-> interval,
     slideshow_duration |-> slideshow_duration, blank_duration |-> blank_duration,
     blank_mode |-> blank_mode, mode_start_time |-> mode_start_time,
     last_change |-> last_change, image_list |-> image_list,
     current_index |-> current_index, current_image |-> current_image,
     cmds |-> <<>>, monitor |-> monitor, mouse_visible |-> mouse_visible,
     screen |-> screen, drawn |-> drawn, running |-> running, raised |-> FALSE]

Install(s) ==
    /\ config' = s.config
    /\ config_mtime' = s.config_mtime
    /\ interval' = s.interval
    /\ slideshow_duration' = s.slideshow_duration
    /\ blank_duration' = s.blank_duration
    /\ blank_mode' = s.blank_mode
    /\ mode_start_time' = s.mode_start_time
    /\ last_change' = s.last_change
    /\ image_list' = s.image_list
    /\ current_index' = s.current_index
    /\ current_image' = s.current_image
    /\ cmds' = s.cmds
    /\ monitor' = s.monitor
    /\ mouse_visible' = s.mouse_visible
    /\ screen' = s.screen
    /\ drawn' = s.drawn
    /\ running' = s.running

raise(s) == [s EXCEPT !.raised = TRUE]

turn_monitor_off(s) == [s EXCEPT !.cmds = Append(@, "off"), !.monitor = "off"]

turn_monitor_on(s) == [s EXCEPT !.cmds = Append(@, "on"), !.monitor = "on"]


(***************************************************************************)
(* load_config, in its two reads of the file: the content (open and        *)
(* json.load), then the modification time and the derived settings.  Its   *)
(* try/except swallows every exception, keeping the assignments made       *)
(* before the exception.                                                   *)
(***************************************************************************)
load_config_read(s, f) ==
    IF f.kind # "json" THEN s ELSE [s EXCEPT !.config = f]

\* load_config as the R handler does it: the thresholds are not derived
load_config_settings_interval_only(s, mtime) ==
    LET c == s.config
        s1 == [s EXCEPT !.config_mtime = mtime]
    IN  IF ~c.has_display THEN s1
        ELSE IF c.slideshow_interval = NoKey THEN s1
        ELSE [s1 EXCEPT !.interval = c.slideshow_interval]

load_config_settings(s, mtime) ==
    LET c == s.config
        s1 == [s EXCEPT !.config_mtime = mtime]
    IN  IF ~c.has_display THEN s1
        ELSE IF c.slideshow_interval = NoKey THEN s1
        ELSE LET s2 == [s1 EXCEPT !.interval = c.slideshow_interval]
             IN  IF c.enable_power_save
                 THEN [s2 EXCEPT
                        !.slideshow_duration =
                            IF c.power_save_slideshow_duration = NoKey
                            THEN DEFAULT_SLIDESHOW_DURATION
                            ELSE c.power_save_slideshow_duration,
                        !.blank_duration =
                            IF c.power_save_blank_duration = NoKey
                            THEN DEFAULT_BLANK_DURATION
                            ELSE c.power_save_blank_duration]
                 ELSE [s2 EXCEPT !.slideshow_duration = DISABLED_DURATION,
                                 !.blank_duration = INIT_BLANK_DURATION]

(***************************************************************************)
(* load_images: the list is emptied first, then the sources are scanned    *)
(* (KeyError when the document has no sources) and the result shuffled;    *)
(* perm is the outcome of random.shuffle.                                  *)
(***************************************************************************)
load_images(s, perm) ==
    IF ~s.config.has_sources
    THEN raise([s EXCEPT !.image_list = <<>>])
    ELSE [s EXCEPT !.image_list = perm]

\* the except clause of check_config_changes catches what load_images raises
caught(s) == [s EXCEPT !.raised = FALSE]

(***************************************************************************)
(* load_current_image.  An index outside the list raises IndexError inside *)
(* the try; the except clause then formats img_path, which was never       *)
(* bound, so an exception (UnboundLocalError) leaves the method.           *)
(***************************************************************************)
load_current_image_raises(s) ==
    s.image_list # <<>> /\ s.current_index >= Len(s.image_list)

load_current_image(s) ==
    IF s.image_list = <<>> THEN None
    ELSE IF s.image_list[s.current_index + 1] \in Undecodable THEN None
    ELSE s.image_list[s.current_index + 1]

\* next_image without the reset of the image-change timer
next_image_keeps_last_change(s, t) ==
    IF s.image_list = <<>> THEN s
    ELSE LET s1 == [s EXCEPT !.current_index = (@ + 1) % Len(s.image_list)]
         IN  [s1 EXCEPT !.current_image = load_current_image(s1)]

next_image(s, t) ==
    IF s.image_list = <<>> THEN s
    ELSE LET s1 == [s EXCEPT !.current_index = (@ + 1) % Len(s.image_list),
                             !.last_change = t]
         IN  [s1 EXCEPT !.current_image = load_current_image(s1)]

(***************************************************************************)
(* render_overlays: the bar and the texts are drawn only inside            *)
(* "if clock_info"; the date text is drawn inside that branch.             *)
(***************************************************************************)
render_overlays(c) ==
    IF c.clock
    THEN {"clock_bar", "clock_text"} \cup (IF c.date THEN {"date_text"} ELSE {})
    ELSE {}

(***************************************************************************)
(* The key-down branch of the event loop of run().                         *)
(***************************************************************************)
\* the wake-up as the B branch does it: last_change is not reset
key_wake_keeps_last_change(s, k, t) ==
    IF s.blank_mode /\ k # "ESC"
    THEN [turn_monitor_on(s) EXCEPT !.blank_mode = FALSE,
                                    !.mode_start_time = t]
    ELSE s

key_wake(s, k, t) ==
    IF s.blank_mode /\ k # "ESC"
    THEN [turn_monitor_on(s) EXCEPT !.blank_mode = FALSE,
                                    !.mode_start_time = t,
                                    !.last_change = t]
    ELSE s

key_escape(s) == [s EXCEPT !.mouse_visible = TRUE, !.running = FALSE]

\* the manual toggle without the monitor-off command
key_b_silent(s, t) ==
    IF s.blank_mode
    THEN [turn_monitor_on(s) EXCEPT !.blank_mode = FALSE, !.mode_start_time = t]
    ELSE [s EXCEPT !.blank_mode = TRUE, !.mode_start_time = t]

key_b(s, t) ==
    IF s.blank_mode
    THEN [turn_monitor_on(s) EXCEPT !.blank_mode = FALSE, !.mode_start_time = t]
    ELSE [turn_monitor_off(s) EXCEPT !.blank_mode = TRUE, !.mode_start_time = t]

\* f: the content of config.json; perm: the outcome of the shuffle
key_r(s, f, perm) ==
    IF f.kind # "json" THEN raise(s)
    ELSE LET s1 == [s EXCEPT !.config = f]
         IN  IF ~f.has_display \/ f.slideshow_interval = NoKey THEN raise(s1)
             ELSE LET s2 == [s1 EXCEPT !.interval = f.slideshow_interval]
                      s3 == load_images(s2, perm)
                  IN  IF s3.raised THEN s3
                      ELSE IF load_current_image_raises(s3) THEN raise(s3)
                      ELSE [s3 EXCEPT !.current_image = load_current_image(s3)]

on_event(s, e, t, f, perm) ==
    IF e = "QUIT" THEN key_escape(s)
    ELSE LET s1 == key_wake(s, e, t)
         IN  CASE e = "ESC" -> key_escape(s1)
               [] e = "SPACE" -> next_image(s1, t)
               [] e = "B" -> key_b(s1, t)
               [] e = "R" -> key_r(s1, f, perm)
               [] OTHER -> s1

\* the mode evaluation with >= in place of >
mode_step_at_threshold(s, t) ==
    LET time_in_mode == t - s.mode_start_time
    IN  IF s.blank_mode
        THEN IF time_in_mode >= s.blank_duration
             THEN [turn_monitor_on(s) EXCEPT !.blank_mode = FALSE,
                                             !.mode_start_time = t,
                                             !.last_change = t]
             ELSE s
        ELSE IF time_in_mode >= s.slideshow_duration
             THEN [turn_monitor_off(s) EXCEPT !.blank_mode = TRUE,
                                              !.mode_start_time = t]
             ELSE s

(***************************************************************************)
(* The mode evaluation of run().                                           *)
(***************************************************************************)
mode_step(s, t) ==
    LET time_in_mode == t - s.mode_start_time
    IN  IF s.blank_mode
        THEN IF time_in_mode > s.blank_duration
             THEN [turn_monitor_on(s) EXCEPT !.blank_mode = FALSE,
                                             !.mode_start_time = t,
                                             !.last_change = t]
             ELSE s
        ELSE IF time_in_mode > s.slideshow_duration
             THEN [turn_monitor_off(s) EXCEPT !.blank_mode = TRUE,
                                              !.mode_start_time = t]
             ELSE s

\* the render branch with the interval check ahead of the mode test
render_step_advances_in_blank(s, t) ==
    LET s1 == IF t - s.last_change > s.interval THEN next_image(s, t) ELSE s
    IN  IF s1.blank_mode
        THEN [s1 EXCEPT !.screen = Black, !.drawn = {}]
        ELSE IF s1.current_image # None
             THEN IF ~s1.config.has_overlays THEN raise(s1)
                  ELSE [s1 EXCEPT !.screen = s1.current_image,
                                  !.drawn = render_overlays(s1.config)]
             ELSE s1

(***************************************************************************)
(* The render branch of run().                                             *)
(***************************************************************************)
render_step(s, t) ==
    IF s.blank_mode
    THEN [s EXCEPT !.screen = Black, !.drawn = {}]
    ELSE LET s1 == IF t - s.last_change > s.interval THEN next_image(s, t) ELSE s
         IN  IF s1.current_image # None
             THEN IF ~s1.config.has_overlays THEN raise(s1)
                  ELSE [s1 EXCEPT !.screen = s1.current_image,
                                  !.drawn = render_overlays(s1.config)]
             ELSE s1


(***************************************************************************)
(* Initial state: the object after __init__, with run() about to start.    *)
(* __init__ calls load_config (line 28) and afterwards assigns             *)
(* slideshow_duration and blank_duration (lines 57-58), so the thresholds  *)
(* of the startup document are overwritten.  Startup fails unless the      *)
(* document is complete and has sources.                                   *)
(***************************************************************************)
InitWith(C) ==
    /\ pc = "start"
    /\ running = TRUE
    /\ events = <<>>
    /\ now = 0
    /\ file_content \in C
    /\ file_mtime = 1
    /\ writer = "idle"
    /\ writes = 0
    /\ config = file_content
    /\ config_mtime = file_mtime
    /\ interval = config.slideshow_interval
    /\ slideshow_duration = DISABLED_DURATION
    /\ blank_duration = INIT_BLANK_DURATION
    /\ blank_mode = FALSE
    /\ mode_start_time = 0
    /\ last_change = 0
    /\ image_list \in ShuffleChoices(config)
    /\ current_index = 0
    /\ current_image = None
    /\ cmds = <<>>
    /\ monitor = "on"
    /\ mouse_visible = TRUE
    /\ screen = Black
    /\ drawn = {}

(***************************************************************************)
(* The control panel: save_config opens the file for writing, which        *)
(* truncates it, then dumps the document.                                  *)
(***************************************************************************)
\* The display process reads the file in the R handler, in check_config_changes
\* and in the second half of load_config; a modification made elsewhere in
\* the iteration is the same as one made at the next of these points.
Alive == pc \in {"poll", "config", "load_mtime"}

\* N: the number of saves the control panel makes
save_config_open_upto(N) ==
    /\ Alive
    /\ writer = "idle"
    /\ writes < N
    /\ file_content' = Malformed
    /\ file_mtime' = file_mtime + 1
    /\ writer' = "opened"
    /\ UNCHANGED <<writes, pc, running, events, now, objvars>>

save_config_open == save_config_open_upto(MaxWrites)

save_config_dump(C) ==
    /\ Alive
    /\ writer = "opened"
    /\ \E c \in C : file_content' = c
    /\ file_mtime' = file_mtime + 1
    /\ writer' = "idle"
    /\ writes' = writes + 1
    /\ UNCHANGED <<pc, running, events, now, objvars>>

\* the file becomes unreadable: open() in load_config raises
file_fault ==
    /\ Alive
    /\ writer = "idle"
    /\ writes < MaxWrites
    /\ file_content' = Unreadable
    /\ file_mtime' = file_mtime + 1
    /\ writes' = writes + 1
    /\ UNCHANGED <<writer, pc, running, events, now, objvars>>

(***************************************************************************)
(* run(): the prologue, then the steps of one loop iteration.              *)
(***************************************************************************)
run_start ==
    /\ pc = "start"
    /\ Install([Self EXCEPT !.mouse_visible = FALSE,
                            !.current_image =
                                IF image_list # <<>> THEN load_current_image(Self)
                                ELSE current_image])
    /\ pc' = "poll"
    /\ UNCHANGED <<events, now, filevars>>

poll_events(E) ==
    /\ pc = "poll"
    /\ \E ev \in EventLists(E) :
        /\ events' = ev
        /\ pc' = IF ev = <<>> THEN "config" ELSE "events"
    /\ Install(Self)
    /\ UNCHANGED <<now, filevars>>

handle_event ==
    /\ pc = "events"
    /\ LET e == Head(events)
       IN  \E perm \in (IF e = "R" THEN ShuffleChoices(file_content) ELSE {<<>>}) :
            LET s == on_event(Self, e, now, file_content, perm)
            IN  /\ Install(s)
                /\ events' = Tail(events)
                /\ pc' = IF s.raised THEN "crashed"
                         ELSE IF Tail(events) = <<>> THEN "config" ELSE "events"
    /\ UNCHANGED <<now, filevars>>

\* the config check without the comparison of modification times
check_config_changes_always ==
    /\ pc = "config"
    /\ IF file_content.kind # "json"
       THEN /\ \E perm \in ShuffleChoices(config) :
                 Install(caught(load_images(load_config_read(Self, file_content), perm)))
            /\ pc' = "mode"
       ELSE /\ Install(load_config_read(Self, file_content))
            /\ pc' = "load_mtime"
    /\ UNCHANGED <<events, now, filevars>>

check_config_changes ==
    /\ pc = "config"
    /\ IF file_mtime = config_mtime
       THEN /\ Install(Self)
            /\ pc' = "mode"
       ELSE IF file_content.kind # "json"
       THEN /\ \E perm \in ShuffleChoices(config) :
                 Install(caught(load_images(load_config_read(Self, file_content), perm)))
            /\ pc' = "mode"
       ELSE /\ Install(load_config_read(Self, file_content))
            /\ pc' = "load_mtime"
    /\ UNCHANGED <<events, now, filevars>>

load_config_finish ==
    /\ pc = "load_mtime"
    /\ \E perm \in ShuffleChoices(config) :
         Install(caught(load_images(load_config_settings(Self, file_mtime), perm)))
    /\ pc' = "mode"
    /\ UNCHANGED <<events, now, filevars>>

evaluate_mode ==
    /\ pc = "mode"
    /\ Install(mode_step(Self, now))
    /\ pc' = "render"
    /\ UNCHANGED <<events, now, filevars>>

\* D: the seconds one iteration may take; Times: the clock values explored
render(D, Times) ==
    /\ pc = "render"
    /\ LET s == render_step(Self, now)
       IN  /\ Install(s)
           /\ IF s.raised
              THEN pc' = "crashed" /\ now' = now
              ELSE IF ~running
              THEN pc' = "done" /\ now' = now
              ELSE /\ pc' = "poll"
                   /\ \E dt \in D : now + dt \in Times /\ now' = now + dt
    /\ UNCHANGED <<events, filevars>>

(***************************************************************************)
(* The general specification: every input, every document, short times.    *)
(***************************************************************************)
StartConfigs == {CfgPlain, CfgSave}
Contents == {CfgPlain, CfgSave, CfgNoDisplay, CfgNoSources}
Steps == {1, 2}

Init == InitWith(StartConfigs)

Next ==
    \/ run_start
    \/ poll_events(AllEvents)
    \/ handle_event
    \/ check_config_changes
    \/ load_config_finish
    \/ evaluate_mode
    \/ render(Steps, 0..MaxTime)
    \/ save_config_open
    \/ save_config_dump(Contents)
    \/ file_fault

Spec == Init /\ [][Next]_vars


(***************************************************************************)
(* The 60-second scenario: power save enabled in the startup document with *)
(* power_save_slideshow_duration = 60, no input event, no change of the    *)
(* file.                                                                   *)
(***************************************************************************)
Init60 == InitWith({CfgSave60})

Next60 ==
    \/ run_start
    \/ poll_events({})
    \/ check_config_changes
    \/ evaluate_mode
    \/ render(Steps, 0..MaxTime60)

Spec60 == Init60 /\ [][Next60]_vars

(***************************************************************************)
(* The long-run scenario: power save disabled in every document the file   *)
(* ever holds, the B key never pressed, and iterations that may take as    *)
(* long as the disabled threshold (a suspended machine, a simulated        *)
(* clock).                                                                 *)
(***************************************************************************)
DisabledContents == {CfgPlain, CfgPlainShort}
LongSteps == {1, DISABLED_DURATION}
LongTimes == (0..MaxLong) \cup (DISABLED_DURATION..(DISABLED_DURATION + MaxLong))

InitLong == InitWith({CfgPlain})

NextLong ==
    \/ run_start
    \/ poll_events(AllEvents \ {"B"})
    \/ handle_event
    \/ check_config_changes
    \/ load_config_finish
    \/ evaluate_mode
    \/ render(LongSteps, LongTimes)
    \/ save_config_open
    \/ save_config_dump(DisabledContents)
    \/ file_fault

SpecLong == InitLong /\ [][NextLong]_vars

(***************************************************************************)
(* The rewrite scenario: the control panel saves complete documents while  *)
(* the display runs with no input event.                                   *)
(***************************************************************************)
RaceContents == {CfgPlain, CfgSave}

InitRace == InitWith({CfgPlain})

NextRace ==
    \/ run_start
    \/ poll_events({})
    \/ check_config_changes
    \/ load_config_finish
    \/ evaluate_mode
    \/ render(Steps, 0..MaxTime)
    \/ save_config_open_upto(MaxRaceWrites)
    \/ save_config_dump(RaceContents)

SpecRace == InitRace /\ [][NextRace]_vars

(***************************************************************************)
(* Properties.                                                             *)
(***************************************************************************)
\* a step of the display process (the control panel changes neither)
DisplayStep == pc' # pc \/ events' # events

Issued(c, log) == \E i \in DOMAIN log : log[i] = c


(***************************************************************************)
(* C1.  With power save enabled and power_save_slideshow_duration = 60, no *)
(* key input and no config change, the mode evaluation that starts in      *)
(* Slideshow switches to Blank, issuing exactly the monitor-off command,   *)
(* when 60 s or more have elapsed since Slideshow was entered, and it does *)
(* not switch when 59 s or less have elapsed.                              *)
(***************************************************************************)
C1_BlankAt60 ==
    [][(pc = "mode" /\ DisplayStep /\ ~blank_mode) =>
          /\ blank_mode' <=> (now - mode_start_time >= 60)
          /\ blank_mode' => cmds' = <<"off">>]_vars

(***************************************************************************)
(* C2.  With power save disabled in every loaded document and the B key    *)
(* never pressed, the mode is Slideshow in every reachable state.          *)
(***************************************************************************)
C2_NeverBlank == ~blank_mode

(***************************************************************************)
(* C2, amended.  With power save disabled in every loaded document and the *)
(* B key never pressed, Blank is entered only when more than 999999999 s   *)
(* have elapsed since Slideshow was entered.                               *)
(***************************************************************************)
C2_BlankOnlyAfterSentinel ==
    [][(~blank_mode /\ blank_mode') => (now - mode_start_time > 999999999)]_vars

\* the mode was evaluated exactly 999999999 s after entering Slideshow and
\* is still Slideshow
C2_Witness ==
    pc = "render" /\ ~blank_mode /\ now - mode_start_time = 999999999

(***************************************************************************)
(* C3.  A key-down event other than the exit key, handled while the mode   *)
(* is Blank, leaves the mode Slideshow with the monitor-on command issued. *)
(***************************************************************************)
C3_KeyWakes ==
    [][(pc = "events" /\ events' # events /\ blank_mode
            /\ Head(events) \in KeyEvents \ {"ESC"}) =>
          (~blank_mode' /\ Issued("on", cmds'))]_vars

(***************************************************************************)
(* C4.  Every step that takes the mode from Blank to Slideshow issues the  *)
(* monitor-on command and sets mode_start_time and last_change to the      *)
(* current time; and an automatic advance in Slideshow happens only when   *)
(* more than the interval has elapsed since Slideshow was entered.         *)
(***************************************************************************)
C4_WakeResetsTimers ==
    [][/\ (blank_mode /\ ~blank_mode') =>
             /\ Issued("on", cmds')
             /\ mode_start_time' = now
             /\ last_change' = now
       /\ (pc = "render" /\ (last_change' # last_change \/ current_index' # current_index)) =>
             now - mode_start_time > interval]_vars

\* the blank timer has just woken the display
C4_Witness ==
    /\ pc = "render"
    /\ ~blank_mode
    /\ cmds = <<"on">>
    /\ mode_start_time = now
    /\ last_change = now
    /\ now > 0

(***************************************************************************)
(* C5.  Once the exit key (or the quit event) has been handled, no later   *)
(* step of the display process changes the mode or issues a monitor        *)
(* command.                                                                *)
(***************************************************************************)
C5_ExitFreezesMode ==
    [][(~running /\ DisplayStep) => (blank_mode' = blank_mode /\ cmds' = <<>>)]_vars

(***************************************************************************)
(* C6.  The run loop never ends through an exception: it ends only after   *)
(* a quit or exit event has cleared running.                               *)
(***************************************************************************)
C6_OnlyQuitEnds == pc # "crashed" /\ (pc = "done" => ~running)

(***************************************************************************)
(* C7.  When an advance (Space key or interval) or a forced reload (R key) *)
(* selects a catalog entry that cannot be decoded, current_image stays the *)
(* frame it was.                                                           *)
(***************************************************************************)
C7_KeepsPreviousFrame ==
    [][(/\ \/ pc = "events" /\ events' # events /\ Head(events) \in {"SPACE", "R"}
           \/ pc = "render" /\ last_change' # last_change
        /\ image_list' # <<>>
        /\ current_index' < Len(image_list')
        /\ image_list'[current_index' + 1] \in Undecodable
        /\ \/ current_index' # current_index
           \/ image_list' # image_list
           \/ last_change' # last_change
           \/ Head(events) = "R") =>
          current_image' = current_image]_vars

(***************************************************************************)
(* C8.  When the config check finds the file changed and its content       *)
(* cannot be loaded (unreadable, unparseable, or without the required      *)
(* keys), config, interval and both thresholds keep their values and the   *)
(* watermark stays different from the file's modification time, so the     *)
(* next iteration tries again.                                             *)
(***************************************************************************)
C8_FailedReloadKeepsConfig ==
    [][/\ (pc = "config" /\ DisplayStep /\ file_mtime # config_mtime /\ ~Complete(file_content)) =>
             /\ config' = config
             /\ interval' = interval
             /\ slideshow_duration' = slideshow_duration
             /\ blank_duration' = blank_duration
             /\ config_mtime' # file_mtime
       /\ (pc = "load_mtime" /\ DisplayStep /\ ~Complete(config)) =>
             /\ interval' = interval
             /\ slideshow_duration' = slideshow_duration
             /\ blank_duration' = blank_duration
             /\ config_mtime' # file_mtime]_vars


(***************************************************************************)
(* C9.  The config check never changes the mode or mode_start_time.  When  *)
(* it finds the file changed and reads a complete document, it installs    *)
(* that document, its interval, the thresholds derived from it and a       *)
(* catalog scanned from its sources, and the mode evaluation of the same   *)
(* iteration decides on the installed thresholds.                          *)
(***************************************************************************)
C9_ReloadInstallsNewSettings ==
    [][/\ (pc \in {"config", "load_mtime"} /\ DisplayStep) =>
             /\ blank_mode' = blank_mode
             /\ mode_start_time' = mode_start_time
             /\ now' = now
             /\ events' = events
       /\ (pc = "config" /\ DisplayStep /\ file_mtime # config_mtime /\ Complete(file_content)) =>
             /\ config' = file_content
             /\ pc' = "load_mtime"
       /\ (pc = "load_mtime" /\ DisplayStep /\ Complete(config)) =>
             /\ config' = config
             /\ interval' = config.slideshow_interval
             /\ slideshow_duration' =
                   IF ~config.enable_power_save THEN 999999999
                   ELSE IF config.power_save_slideshow_duration = NoKey THEN 60
                   ELSE config.power_save_slideshow_duration
             /\ blank_duration' =
                   IF ~config.enable_power_save THEN 30
                   ELSE IF config.power_save_blank_duration = NoKey THEN 30
                   ELSE config.power_save_blank_duration
             /\ config.has_sources => image_list' \in Perms(config.images)
             /\ ~config.has_sources => image_list' = <<>>
             /\ pc' = "mode"
       /\ (pc = "mode" /\ DisplayStep) =>
             /\ (~blank_mode /\ blank_mode') <=>
                   (~blank_mode /\ now - mode_start_time > slideshow_duration)
             /\ (blank_mode /\ ~blank_mode') <=>
                   (blank_mode /\ now - mode_start_time > blank_duration)]_vars

\* a hot-reload has just installed the power-save document, and the mode
\* evaluation is about to run
C9_Witness ==
    /\ pc = "mode"
    /\ file_mtime > 1
    /\ config_mtime = file_mtime
    /\ config = CfgSave
    /\ interval = 0
    /\ slideshow_duration = 1
    /\ blank_duration = 1

(***************************************************************************)
(* C10.  When the config check finds the file's modification time equal to *)
(* the watermark, it changes neither config nor image_list nor the         *)
(* watermark; and no step other than the config check of a changed file    *)
(* and the R key handler changes any of them.                              *)
(***************************************************************************)
C10_NoReloadWhenUnchanged ==
    [][(/\ DisplayStep
        /\ ~(pc = "events" /\ Head(events) = "R")
        /\ ~(pc = "config" /\ file_mtime # config_mtime)
        /\ pc # "load_mtime") =>
          /\ config' = config
          /\ image_list' = image_list
          /\ config_mtime' = config_mtime]_vars

\* after the first iteration, the check has just passed a file that was
\* never modified
C10_Witness ==
    /\ pc = "mode"
    /\ now > 0
    /\ file_mtime = 1
    /\ config_mtime = 1
    /\ Len(image_list) = 2

(***************************************************************************)
(* C11.  With a non-empty catalog of length n, every advance, by the Space *)
(* key or by the expiry of the interval in Slideshow, sets current_index   *)
(* to (current_index + 1) mod n and last_change to the current time.       *)
(***************************************************************************)
C11_AdvanceWraps ==
    [][(/\ DisplayStep
        /\ image_list # <<>>
        /\ \/ pc = "events" /\ Head(events) = "SPACE"
           \/ pc = "render" /\ ~blank_mode /\ now - last_change > interval) =>
          /\ current_index' = (current_index + 1) % Len(image_list)
          /\ last_change' = now
          /\ image_list' = image_list]_vars

\* the catalog [3, 1] of the unmodified file: image 1 was shown from index
\* 1 and an advance has just wrapped to index 0
C11_Witness ==
    /\ image_list = <<3, 1>>
    /\ file_mtime = 1
    /\ screen = 1
    /\ current_index = 0
    /\ current_image = None
    /\ last_change = now
    /\ now > 0

(***************************************************************************)
(* C12.  On every composited frame the clock text is drawn if and only if  *)
(* the clock overlay is enabled, and the date text is drawn if and only if *)
(* the date overlay is enabled; with the clock disabled no clock-sized bar *)
(* is drawn.                                                               *)
(***************************************************************************)
C12_OverlayPerFlag ==
    [][(/\ pc = "render"
        /\ DisplayStep
        /\ pc' # "crashed"
        /\ ~blank_mode
        /\ current_image' # None) =>
          /\ ("clock_text" \in drawn') <=> config.clock
          /\ ("date_text" \in drawn') <=> config.date
          /\ ~config.clock => "clock_bar" \notin drawn']_vars

(***************************************************************************)
(* C13.  Whenever the run loop has ended, the mouse pointer is visible and *)
(* a quit or exit event has been handled.                                  *)
(***************************************************************************)
C13_PointerRestored ==
    pc \in {"done", "crashed"} => (mouse_visible /\ ~running)

(***************************************************************************)
(* C14.  Wherever the catalog is indexed to prepare a frame (the prologue  *)
(* of run, an advance, the R key handler after it has rebuilt the catalog) *)
(* and the catalog is not empty, 0 <= current_index < Len(image_list).     *)
(***************************************************************************)
C14_IndexInRange ==
    [][(/\ DisplayStep
        /\ image_list' # <<>>
        /\ \/ pc = "start"
           \/ pc = "events" /\ Head(events) = "SPACE"
           \/ pc = "events" /\ Head(events) = "R"
                /\ Complete(file_content) /\ file_content.has_sources
           \/ pc = "render" /\ ~blank_mode /\ now - last_change > interval) =>
          (0 <= current_index' /\ current_index' < Len(image_list'))]_vars

(***************************************************************************)
(* C15.  A render step taken in Blank mode leaves the screen black with no *)
(* overlay drawn and changes neither current_index nor last_change nor     *)
(* current_image; so a render step that advances the index or composites   *)
(* a frame is taken in Slideshow mode.                                     *)
(***************************************************************************)
C15_BlankPresentsBlack ==
    [][(pc = "render" /\ DisplayStep) =>
          /\ blank_mode =>
                /\ screen' = Black
                /\ drawn' = {}
                /\ current_index' = current_index
                /\ last_change' = last_change
                /\ current_image' = current_image
          /\ (current_index' # current_index \/ last_change' # last_change
                \/ (screen' # Black /\ screen' # screen) \/ drawn' # {}) =>
                ~blank_mode]_vars

\* a Blank tick has been presented although the interval had expired
C15_Witness ==
    /\ pc = "poll"
    /\ blank_mode
    /\ screen = Black
    /\ image_list # <<>>
    /\ now - last_change > interval + 2

(***************************************************************************)
(* C16.  The last monitor command is 'off' exactly when the mode is Blank; *)
(* a step that changes the mode issues a command, and the last command a   *)
(* step issues matches the mode it ends in.                                *)
(***************************************************************************)
C16_MonitorMatchesMode ==
    /\ []((monitor = "off") <=> blank_mode)
    /\ [][DisplayStep =>
            /\ blank_mode' # blank_mode => cmds' # <<>>
            /\ cmds' # <<>> =>
                 (cmds'[Len(cmds')] = "off") <=> blank_mode']_vars

\* a tick has ended in Blank after the display had been woken once
C16_Witness ==
    /\ pc = "poll"
    /\ blank_mode
    /\ monitor = "off"
    /\ mode_start_time > 0

(***************************************************************************)
(* C17.  With the control panel rewriting the file while the display       *)
(* hot-reloads it, the loop keeps running, and whenever the control panel  *)
(* is not in the middle of a save and the watermark equals the file's      *)
(* modification time, the in-memory configuration is the file's content.   *)
(***************************************************************************)
C17_WatermarkNeverStale ==
    /\ pc # "crashed"
    /\ (writer = "idle" /\ pc # "load_mtime" /\ config_mtime = file_mtime) =>
          config = file_content

====
